---------------------------- MODULE Spec2Model ----------------------------
(***************************************************************************)
(* mp2json: a streaming MessagePack -> JSON transcoder (src/src/main.rs).  *)
(*                                                                         *)
(* Two specifications over one set of variables:                           *)
(*   SpecConvert  the pure function convert applied to one MessagePack     *)
(*                value drawn from a bounded universe;                     *)
(*   Spec         Converter::run over a byte stream and a sink.            *)
(*                                                                         *)
(* Bytes are integers 0..255, text is a sequence of Unicode code points.   *)
(* MessagePack values are records tagged by t with the names of            *)
(* rmpv::Value's variants, JSON values are records tagged by t with the    *)
(* names of json::JsonValue's variants.                                    *)
(***************************************************************************)
EXTENDS Integers, Sequences, FiniteSets, TLC

VARIABLES
    mp,         \* SpecConvert: the argument of convert
    cdone,      \* SpecConvert: convert has returned
    cres,       \* SpecConvert: what convert returned
    vals,       \* Spec: the values whose encodings were concatenated (ghost)
    input,      \* Spec: the bytes of the source
    pos,        \* Spec: the source's cursor (bytes consumed)
    buffered,   \* Converter.buffered
    pretty,     \* Converter.pretty
    sinkKind,   \* how the sink behaves once sinkCap bytes were accepted
    sinkCap,    \* bytes the sink accepts before it stops accepting
    sink,       \* the bytes the sink holds
    buf,        \* the BufWriter's buffer (buffered only)
    pc,         \* position of run: "loop", "after", "done" ("idle" in SpecConvert)
    result,     \* what run returned: "none", "Ok" or the Mp2JsonError variant
    nread,      \* values read and converted successfully so far (ghost)
    lastStart,  \* cursor at the start of the latest read_value call (ghost)
    lastRead,   \* outcome of the latest read_and_convert_one call (ghost)
    sinkErrs    \* error kinds the sink or the BufWriter reported so far (ghost)

vars == <<mp, cdone, cres, vals, input, pos, buffered, pretty, sinkKind, sinkCap,
          sink, buf, pc, result, nread, lastStart, lastRead, sinkErrs>>

convVars == <<mp, cdone, cres>>
runVars == <<vals, input, pos, buffered, pretty, sinkKind, sinkCap, sink, buf, pc,
             result, nread, lastStart, lastRead, sinkErrs>>

----------------------------------------------------------------------------
(* Bounds of the model.                                                    *)

\* u64 / i64 are modelled IntBits wide (the code's 64, scaled down).
IntBits == 4
\* Longest String payload enumerated exhaustively over StrAlphabet.
MaxStrLen == 2
\* Longest Binary / Ext payload enumerated over BinAlphabet.
MaxBinLen == 3
\* Most elements of an enumerated Array.
MaxArr == 2
\* Most entries of an enumerated Map.
MaxMap == 2
\* Most values concatenated into an input stream.
MaxVals == 2
\* Capacity of the BufWriter (std's default is 8 KiB, scaled down).
BufCap == 6
\* Largest finite number of bytes a sink accepts before it stops accepting.
MaxSinkCap == 5

----------------------------------------------------------------------------
(* Generic helpers.                                                        *)

Pow2(n) == 2 ^ n

Min(a, b) == IF a <= b THEN a ELSE b

RECURSIVE Flatten(_)
Flatten(ss) == IF ss = <<>> THEN <<>> ELSE Head(ss) \o Flatten(Tail(ss))

SeqsUpTo(S, n) == UNION {[1..k -> S] : k \in 0..n}

Ok(v) == [ok |-> TRUE, v |-> v]
Err(e) == [ok |-> FALSE, err |-> e]
Some(v) == [some |-> TRUE, v |-> v]
None == [some |-> FALSE]

----------------------------------------------------------------------------
(* UTF-8, as String::from_utf8 validates and decodes it (rmpv keeps a      *)
(* String's raw bytes and Utf8String::into_str gives the text only when    *)
(* they are valid UTF-8).                                                  *)

\* Length of the well-formed UTF-8 sequence starting at b[i], 0 when none does.
Utf8SeqLen(b, i) ==
    LET n == Len(b)
        b0 == b[i]
        c(k, lo, hi) == i + k <= n /\ b[i + k] >= lo /\ b[i + k] <= hi
    IN  IF b0 < 128 THEN 1
        ELSE IF b0 >= 194 /\ b0 <= 223 THEN (IF c(1, 128, 191) THEN 2 ELSE 0)
        ELSE IF b0 = 224 THEN (IF c(1, 160, 191) /\ c(2, 128, 191) THEN 3 ELSE 0)
        ELSE IF (b0 >= 225 /\ b0 <= 236) \/ b0 = 238 \/ b0 = 239
             THEN (IF c(1, 128, 191) /\ c(2, 128, 191) THEN 3 ELSE 0)
        ELSE IF b0 = 237 THEN (IF c(1, 128, 159) /\ c(2, 128, 191) THEN 3 ELSE 0)
        ELSE IF b0 = 240
             THEN (IF c(1, 144, 191) /\ c(2, 128, 191) /\ c(3, 128, 191) THEN 4 ELSE 0)
        ELSE IF b0 >= 241 /\ b0 <= 243
             THEN (IF c(1, 128, 191) /\ c(2, 128, 191) /\ c(3, 128, 191) THEN 4 ELSE 0)
        ELSE IF b0 = 244
             THEN (IF c(1, 128, 143) /\ c(2, 128, 191) /\ c(3, 128, 191) THEN 4 ELSE 0)
        ELSE 0

\* The code point of the well-formed sequence of length k starting at b[i].
Utf8CodePoint(b, i, k) ==
    CASE k = 1 -> b[i]
      [] k = 2 -> (b[i] - 192) * 64 + (b[i + 1] - 128)
      [] k = 3 -> (b[i] - 224) * 4096 + (b[i + 1] - 128) * 64 + (b[i + 2] - 128)
      [] k = 4 -> (b[i] - 240) * 262144 + (b[i + 1] - 128) * 4096
                  + (b[i + 2] - 128) * 64 + (b[i + 3] - 128)

RECURSIVE Utf8DecodeFrom(_, _, _)
Utf8DecodeFrom(b, i, acc) ==
    IF i > Len(b) THEN Some(acc)
    ELSE LET k == Utf8SeqLen(b, i)
         IN  IF k = 0 THEN None
             ELSE Utf8DecodeFrom(b, i + k, Append(acc, Utf8CodePoint(b, i, k)))

\* Utf8String::into_str: the text of the raw bytes, or None.
into_str(s) == Utf8DecodeFrom(s, 1, <<>>)

\* A code point's UTF-8 bytes (how the JSON writer puts text on the wire).
Utf8EncodeCp(c) ==
    IF c < 128 THEN <<c>>
    ELSE IF c < 2048 THEN <<192 + (c \div 64), 128 + (c % 64)>>
    ELSE IF c < 65536
         THEN <<224 + (c \div 4096), 128 + ((c \div 64) % 64), 128 + (c % 64)>>
    ELSE <<240 + (c \div 262144), 128 + ((c \div 4096) % 64),
           128 + ((c \div 64) % 64), 128 + (c % 64)>>

----------------------------------------------------------------------------
(* Standard padded base64 (base64::prelude::BASE64_STANDARD).              *)

\* The ASCII code of the i-th character of the standard alphabet.
B64Char(i) ==
    IF i < 26 THEN 65 + i
    ELSE IF i < 52 THEN 97 + (i - 26)
    ELSE IF i < 62 THEN 48 + (i - 52)
    ELSE IF i = 62 THEN 43
    ELSE 47

\* The index of an alphabet character, -1 for any other character.
B64Index(c) ==
    IF c >= 65 /\ c <= 90 THEN c - 65
    ELSE IF c >= 97 /\ c <= 122 THEN c - 97 + 26
    ELSE IF c >= 48 /\ c <= 57 THEN c - 48 + 52
    ELSE IF c = 43 THEN 62
    ELSE IF c = 47 THEN 63
    ELSE -1

RECURSIVE Base64EncodeUnpadded(_)
Base64EncodeUnpadded(b) ==
    IF Len(b) = 0 THEN <<>>
    ELSE IF Len(b) = 1
         THEN <<B64Char(b[1] \div 4), B64Char((b[1] % 4) * 16)>>
    ELSE IF Len(b) = 2
         THEN <<B64Char(b[1] \div 4), B64Char((b[1] % 4) * 16 + (b[2] \div 16)),
                B64Char((b[2] % 16) * 4)>>
    ELSE <<B64Char(b[1] \div 4), B64Char((b[1] % 4) * 16 + (b[2] \div 16)),
           B64Char((b[2] % 16) * 4 + (b[3] \div 64)), B64Char(b[3] % 64)>>
         \o Base64EncodeUnpadded(SubSeq(b, 4, Len(b)))

RECURSIVE Base64EncodeFrom(_)
Base64EncodeFrom(b) ==
    IF Len(b) = 0 THEN <<>>
    ELSE IF Len(b) = 1
         THEN <<B64Char(b[1] \div 4), B64Char((b[1] % 4) * 16), 61, 61>>
    ELSE IF Len(b) = 2
         THEN <<B64Char(b[1] \div 4), B64Char((b[1] % 4) * 16 + (b[2] \div 16)),
                B64Char((b[2] % 16) * 4), 61>>
    ELSE <<B64Char(b[1] \div 4), B64Char((b[1] % 4) * 16 + (b[2] \div 16)),
           B64Char((b[2] % 16) * 4 + (b[3] \div 64)), B64Char(b[3] % 64)>>
         \o Base64EncodeFrom(SubSeq(b, 4, Len(b)))

\* BASE64_STANDARD.encode: the text (ASCII code points) of the bytes b.
Base64Encode(b) == Base64EncodeFrom(b)

\* BASE64_STANDARD.decode: strict, canonical, padding required.
RECURSIVE Base64Decode(_)
Base64Decode(s) ==
    IF Len(s) = 0 THEN Some(<<>>)
    ELSE IF Len(s) < 4 THEN None
    ELSE LET i1 == B64Index(s[1])
             i2 == B64Index(s[2])
             i3 == B64Index(s[3])
             i4 == B64Index(s[4])
             last == Len(s) = 4
         IN  IF i1 < 0 \/ i2 < 0 THEN None
             ELSE IF s[3] = 61
                  THEN IF last /\ s[4] = 61 /\ i2 % 16 = 0
                       THEN Some(<<i1 * 4 + (i2 \div 16)>>)
                       ELSE None
             ELSE IF i3 < 0 THEN None
             ELSE IF s[4] = 61
                  THEN IF last /\ i3 % 4 = 0
                       THEN Some(<<i1 * 4 + (i2 \div 16), (i2 % 16) * 16 + (i3 \div 4)>>)
                       ELSE None
             ELSE IF i4 < 0 THEN None
             ELSE LET rest == Base64Decode(SubSeq(s, 5, Len(s)))
                  IN  IF rest.some
                      THEN Some(<<i1 * 4 + (i2 \div 16), (i2 % 16) * 16 + (i3 \div 4),
                                  (i3 % 4) * 64 + i4>> \o rest.v)
                      ELSE None

----------------------------------------------------------------------------
(* rmpv::Value (MpValue) and json::JsonValue.                              *)

MpNil == [t |-> "Nil"]
MpBoolean(b) == [t |-> "Boolean", bool |-> b]
\* rmpv::Integer is PosInt(u64) or NegInt(i64); From<i64> gives NegInt only
\* to negative numbers.
MpPosInt(n) == [t |-> "Integer", sign |-> "PosInt", n |-> n]
MpNegInt(n) == [t |-> "Integer", sign |-> "NegInt", n |-> n]
MpF32(f) == [t |-> "F32", f |-> f]
MpF64(f) == [t |-> "F64", f |-> f]
MpString(bytes) == [t |-> "String", s |-> bytes]
MpBinary(bytes) == [t |-> "Binary", b |-> bytes]
MpArray(items) == [t |-> "Array", items |-> items]
\* A Map is a Vec of (key, value) pairs.
MpMap(entries) == [t |-> "Map", entries |-> entries]
MpExt(code, bytes) == [t |-> "Ext", code |-> code, b |-> bytes]

JsonNull == [t |-> "Null"]
JsonBoolean(b) == [t |-> "Boolean", bool |-> b]
\* json::number::Number: sign, mantissa and decimal exponent.
JsonNumber(neg, mantissa, exponent) ==
    [t |-> "Number", neg |-> neg, mantissa |-> mantissa, exponent |-> exponent]
\* A Number made from a float keeps the float (its decimal expansion is not modelled).
JsonFloat(f) == [t |-> "Number", float |-> f]
JsonString(text) == [t |-> "String", s |-> text]
JsonArray(items) == [t |-> "Array", items |-> items]
\* json::object::Object: entries in insertion order, keys unique.
JsonObject(entries) == [t |-> "Object", entries |-> entries]

\* The texts the code writes as keys and values.
TxtEncoding == <<101, 110, 99, 111, 100, 105, 110, 103>>
TxtBase64 == <<98, 97, 115, 101, 54, 52>>
TxtValue == <<118, 97, 108, 117, 101>>
TxtTypeCode == <<116, 121, 112, 101, 95, 99, 111, 100, 101>>

\* A plausible slip: the first value of a key is kept.
ObjectInsertKeepFirst(entries, k, v) ==
    IF \E i \in 1..Len(entries) : entries[i].k = k
    THEN entries
    ELSE Append(entries, [k |-> k, v |-> v])

\* Object::insert: replace the value of an existing key in place, else append.
ObjectInsert(entries, k, v) ==
    IF \E i \in 1..Len(entries) : entries[i].k = k
    THEN [i \in 1..Len(entries) |->
             IF entries[i].k = k THEN [k |-> k, v |-> v] ELSE entries[i]]
    ELSE Append(entries, [k |-> k, v |-> v])

\* Object::get.
ObjectGet(entries, k) ==
    IF \E i \in 1..Len(entries) : entries[i].k = k
    THEN Some(entries[CHOOSE i \in 1..Len(entries) : entries[i].k = k].v)
    ELSE None

----------------------------------------------------------------------------
(* rmpv::Integer's accessors and the From impls of JsonValue.              *)

I64Max == Pow2(IntBits - 1) - 1
I64Min == 0 - Pow2(IntBits - 1)
U64Max == Pow2(IntBits) - 1

\* A plausible slip: the cast without the range check.
as_i64_wrapping(i) ==
    IF i.n <= Pow2(IntBits - 1) - 1 THEN Some(i.n) ELSE Some(i.n - Pow2(IntBits))

as_i64(i) ==
    IF i.sign = "PosInt"
    THEN (IF i.n <= I64Max THEN Some(i.n) ELSE None)
    ELSE Some(i.n)

as_u64(i) ==
    IF i.sign = "PosInt"
    THEN Some(i.n)
    ELSE (IF i.n >= 0 THEN Some(i.n) ELSE None)

\* Always Some: every u64 and i64 has a nearest f64.
as_f64(i) == Some(i.n)

\* JsonValue::from(i64): sign and magnitude, exponent 0.
JsonFromI64(n) == IF n < 0 THEN JsonNumber(TRUE, 0 - n, 0) ELSE JsonNumber(FALSE, n, 0)
\* JsonValue::from(u64).
JsonFromU64(n) == JsonNumber(FALSE, n, 0)
\* JsonValue::from(f64).
JsonFromF64(f) == JsonFloat(f)

----------------------------------------------------------------------------
(* convert (main.rs 24-82).                                                *)

RECURSIVE convert(_)
RECURSIVE ConvertArrayFrom(_, _, _)
RECURSIVE ConvertMapFrom(_, _, _)

\* The Integer arm.
ConvertInteger(i) ==
    IF as_i64(i).some THEN Ok(JsonFromI64(as_i64(i).v))
    ELSE IF as_u64(i).some THEN Ok(JsonFromU64(as_u64(i).v))
    ELSE IF as_f64(i).some THEN Ok(JsonFromF64(as_f64(i).v))
    ELSE Err("InvalidInteger")

\* A plausible slip: lossy decoding in place of the failure.
ConvertStringLossy(bytes) ==
    IF into_str(bytes).some THEN Ok(JsonString(into_str(bytes).v))
    ELSE Ok(JsonString(<<65533>>))

\* The String arm.
ConvertString(bytes) ==
    IF into_str(bytes).some THEN Ok(JsonString(into_str(bytes).v))
    ELSE Err("InvalidString")

\* The Binary arm.
ConvertBinary(b) ==
    Ok(JsonObject(ObjectInsert(ObjectInsert(<<>>, TxtEncoding, JsonString(TxtBase64)),
                               TxtValue, JsonString(Base64Encode(b)))))

\* The Ext arm.
ConvertExt(code, b) ==
    Ok(JsonObject(ObjectInsert(ObjectInsert(ObjectInsert(<<>>,
                      TxtTypeCode, JsonFromI64(code)),
                      TxtEncoding, JsonString(TxtBase64)),
                      TxtValue, JsonString(Base64Encode(b)))))

\* into_iter().map(convert).collect::<Result<Vec<_>, _>>(): stops at the first Err.
ConvertArrayFrom(items, i, acc) ==
    IF i > Len(items) THEN Ok(JsonArray(acc))
    ELSE LET r == convert(items[i])
         IN  IF r.ok THEN ConvertArrayFrom(items, i + 1, Append(acc, r.v)) ELSE r

\* A plausible slip: the failing elements are skipped.
ConvertArraySkipping(items) ==
    Ok(JsonArray(LET ok == {i \in 1..Len(items) : convert(items[i]).ok}
                     F[i \in 0..Len(items)] ==
                         IF i = 0 THEN <<>>
                         ELSE IF i \in ok THEN Append(F[i - 1], convert(items[i]).v)
                         ELSE F[i - 1]
                 IN  F[Len(items)]))

\* The Array arm.
ConvertArray(items) == ConvertArrayFrom(items, 1, <<>>)

\* The closure applied to every (k, v) of a Map (main.rs 58-70).
MapEntry(e) ==
    IF e.k.t = "String"
    THEN IF into_str(e.k.s).some
         THEN LET v == convert(e.v)
              IN  IF v.ok THEN Ok([k |-> into_str(e.k.s).v, v |-> v.v]) ELSE v
         ELSE Err("InvalidString")
    ELSE Err("MapKeyNotString")

\* collect::<Result<JsonObject, _>>(): insert the pairs in order, stop at the
\* first Err.
ConvertMapFrom(entries, i, acc) ==
    IF i > Len(entries) THEN Ok(JsonObject(acc))
    ELSE LET r == MapEntry(entries[i])
         IN  IF r.ok THEN ConvertMapFrom(entries, i + 1, ObjectInsert(acc, r.v.k, r.v.v))
             ELSE r

\* A plausible slip: an entry whose key is no valid string is dropped.
ConvertMapSkipping(entries) ==
    LET Keyed(e) == e.k.t = "String" /\ into_str(e.k.s).some
    IN  ConvertMapFrom(SelectSeq(entries, Keyed), 1, <<>>)

\* The Map arm.
ConvertMap(entries) == ConvertMapFrom(entries, 1, <<>>)

convert(r) ==
    CASE r.t = "Nil" -> Ok(JsonNull)
      [] r.t = "Boolean" -> Ok(JsonBoolean(r.bool))
      [] r.t = "Integer" -> ConvertInteger(r)
      [] r.t = "F32" -> Ok(JsonFromF64(r.f))
      [] r.t = "F64" -> Ok(JsonFromF64(r.f))
      [] r.t = "String" -> ConvertString(r.s)
      [] r.t = "Binary" -> ConvertBinary(r.b)
      [] r.t = "Array" -> ConvertArray(r.items)
      [] r.t = "Map" -> ConvertMap(r.entries)
      [] r.t = "Ext" -> ConvertExt(r.code, r.b)

----------------------------------------------------------------------------
(* The bounded universe of arguments of convert.                           *)

\* Bytes of enumerated strings: 'a', '(', a two-byte lead (0xC3) and a
\* continuation byte (0xA9).
StrAlphabet == {97, 40, 195, 169}
\* Further payloads: a three-byte and a four-byte sequence, a surrogate, an
\* overlong form, a byte no sequence starts with, a control character.
StrSamples == {<<226, 130, 172>>, <<240, 159, 152, 128>>, <<237, 160, 128>>,
               <<192, 128>>, <<255>>, <<98, 10>>}
StrPayloads == SeqsUpTo(StrAlphabet, MaxStrLen) \cup StrSamples

BinAlphabet == {0, 98, 255}
BinPayloads == SeqsUpTo(BinAlphabet, MaxBinLen) \cup {<<98, 97, 114>>}

\* Ext type codes are i8.
ExtCodes == {-128, -1, 0, 5, 127}

\* Every value rmpv can hold in an Integer.
MpIntegers == {MpPosInt(n) : n \in 0..U64Max} \cup {MpNegInt(n) : n \in I64Min..(-1)}

MpLeaves ==
    {MpNil, MpBoolean(TRUE), MpBoolean(FALSE), MpF32(1), MpF64(2)}
    \cup MpIntegers
    \cup {MpString(s) : s \in StrPayloads}
    \cup {MpBinary(b) : b \in BinPayloads}
    \cup {MpExt(c, b) : c \in ExtCodes, b \in SeqsUpTo(BinAlphabet, 1)}

\* Elements of the enumerated containers: leaves that convert and leaves that do not.
MpAtoms == {MpNil, MpPosInt(1), MpString(<<97>>), MpString(<<195, 40>>), MpBinary(<<98>>)}
\* Keys: "a", "b", a String that is not UTF-8, two keys that are no String.
MpKeys == {MpString(<<97>>), MpString(<<98>>), MpString(<<195, 40>>), MpPosInt(1), MpNil}

MpEntries(K, V) == {[k |-> k, v |-> v] : k \in K, v \in V}
MpArrays(E) == {MpArray(items) : items \in SeqsUpTo(E, MaxArr)}
MpMaps(K, V) == {MpMap(es) : es \in SeqsUpTo(MpEntries(K, V), MaxMap)}

\* Containers nested in containers: ones that convert, and ones that fail
\* with each error.
MpNested == {MpArray(<<MpPosInt(1)>>), MpArray(<<MpString(<<195, 40>>)>>),
             MpMap(<<[k |-> MpPosInt(1), v |-> MpNil]>>),
             MpMap(<<[k |-> MpString(<<97>>), v |-> MpString(<<195, 40>>)]>>),
             MpMap(<<[k |-> MpString(<<97>>), v |-> MpPosInt(1)]>>)}
MpMapValues == {MpNil, MpPosInt(1), MpString(<<195, 40>>)} \cup MpNested

MpInputs ==
    MpLeaves \cup MpArrays(MpAtoms \cup MpNested) \cup MpMaps(MpKeys, MpMapValues)

----------------------------------------------------------------------------
(* SpecConvert: convert applied to one value.                              *)

InitConvert ==
    /\ mp \in MpInputs
    /\ cdone = FALSE
    /\ cres = Err("NotRun")
    /\ vals = <<>> /\ input = <<>> /\ pos = 0
    /\ buffered = FALSE /\ pretty = FALSE
    /\ sinkKind = "Unbounded" /\ sinkCap = 0
    /\ sink = <<>> /\ buf = <<>>
    /\ pc = "idle" /\ result = "none"
    /\ nread = 0 /\ lastStart = 0 /\ lastRead = "none" /\ sinkErrs = {}

\* convert(mp) returns.
Convert ==
    /\ pc = "idle"
    /\ ~cdone
    /\ cres' = convert(mp)
    /\ cdone' = TRUE
    /\ UNCHANGED <<mp, runVars>>

NextConvert == Convert

SpecConvert == InitConvert /\ [][NextConvert]_vars

----------------------------------------------------------------------------
(* What the claims about convert speak of.                                 *)

\* The text re-encoded as UTF-8.
Utf8Bytes(text) == Flatten([i \in 1..Len(text) |-> Utf8EncodeCp(text[i])])

\* The number a Number stands for (integers: exponent 0).
NumValue(j) == (IF j.neg THEN 0 - j.mantissa ELSE j.mantissa) * (10 ^ j.exponent)

IsStringKey(k) == k.t = "String"
IsUtf8Key(k) == k.t = "String" /\ into_str(k.s).some

\* The keys of a JSON object, in order.
ObjectKeys(entries) == [i \in 1..Len(entries) |-> entries[i].k]

\* A String that is not UTF-8 sits in v, at any depth of array elements and
\* map values.
RECURSIVE HoldsInvalidString(_)
HoldsInvalidString(v) ==
    CASE v.t = "String" -> ~into_str(v.s).some
      [] v.t = "Array" -> \E i \in 1..Len(v.items) : HoldsInvalidString(v.items[i])
      [] v.t = "Map" -> \E i \in 1..Len(v.entries) : HoldsInvalidString(v.entries[i].v)
      [] OTHER -> FALSE

\* A map of v, at any depth, has a key that is no String.
RECURSIVE HoldsNonStringKey(_)
HoldsNonStringKey(v) ==
    CASE v.t = "Array" -> \E i \in 1..Len(v.items) : HoldsNonStringKey(v.items[i])
      [] v.t = "Map" -> \E i \in 1..Len(v.entries) :
                            \/ ~IsStringKey(v.entries[i].k)
                            \/ HoldsNonStringKey(v.entries[i].v)
      [] OTHER -> FALSE

\* Every String of v, at any depth of array elements and (surviving) map
\* values, is in j at the same place as the text its bytes encode.
RECURSIVE StringsMirrored(_, _)
StringsMirrored(v, j) ==
    CASE v.t = "String" -> j.t = "String" /\ Utf8Bytes(j.s) = v.s
      [] v.t = "Array" ->
            /\ j.t = "Array"
            /\ Len(j.items) = Len(v.items)
            /\ \A i \in 1..Len(v.items) : StringsMirrored(v.items[i], j.items[i])
      [] v.t = "Map" ->
            /\ j.t = "Object"
            /\ \A i \in 1..Len(v.entries) :
                   (\A h \in (i + 1)..Len(v.entries) : v.entries[h].k # v.entries[i].k)
                   => LET got == ObjectGet(j.entries, into_str(v.entries[i].k.s).v)
                      IN  got.some /\ StringsMirrored(v.entries[i].v, got.v)
      [] OTHER -> TRUE

\* The first entry of a map that fails: its key is no valid string, or its
\* value does not convert (0 when every entry passes).
FirstFailingEntry(entries) ==
    LET bad == {i \in 1..Len(entries) :
                    ~IsUtf8Key(entries[i].k) \/ ~convert(entries[i].v).ok}
    IN  IF bad = {} THEN 0 ELSE CHOOSE i \in bad : \A h \in bad : i <= h

----------------------------------------------------------------------------
(* Claims about convert, checked under SpecConvert.                        *)

\* C5 as stated: a map with an entry whose key is not a String makes convert
\* fail with MapKeyNotString, and one with an entry whose key is a String that
\* is not UTF-8 makes it fail with InvalidString.
C5_BadKeyDecidesError ==
    (cdone /\ mp.t = "Map") =>
        \A i \in 1..Len(mp.entries) :
            /\ ~IsStringKey(mp.entries[i].k) => cres = Err("MapKeyNotString")
            /\ (IsStringKey(mp.entries[i].k) /\ ~IsUtf8Key(mp.entries[i].k))
                   => cres = Err("InvalidString")

\* C5 amended: a map with an entry whose key is not a String or not UTF-8 never
\* converts to an object; convert fails with the error of the first failing
\* entry in input order: MapKeyNotString when that entry's key is no String,
\* InvalidString when it is a String that is not UTF-8, else the error of the
\* entry's value.
C5_FirstBadEntryDecidesError ==
    (cdone /\ mp.t = "Map"
           /\ \E i \in 1..Len(mp.entries) : ~IsUtf8Key(mp.entries[i].k)) =>
        LET f == mp.entries[FirstFailingEntry(mp.entries)]
        IN  /\ ~cres.ok
            /\ ~IsStringKey(f.k) => cres = Err("MapKeyNotString")
            /\ (IsStringKey(f.k) /\ ~IsUtf8Key(f.k)) => cres = Err("InvalidString")
            /\ IsUtf8Key(f.k) => cres = convert(f.v)

\* C5 witness: the second entry's key is the integer 1, the first entry is fine.
C5_Witness ==
    /\ cdone
    /\ mp = MpMap(<<[k |-> MpString(<<97>>), v |-> MpNil],
                    [k |-> MpPosInt(1), v |-> MpNil]>>)
    /\ cres = Err("MapKeyNotString")

C8_ArrayElementwiseFailFast ==
    (cdone /\ mp.t = "Array") =>
        LET bad == {i \in 1..Len(mp.items) : ~convert(mp.items[i]).ok}
        IN  IF bad = {}
            THEN /\ cres.ok
                 /\ cres.v.t = "Array"
                 /\ Len(cres.v.items) = Len(mp.items)
                 /\ \A i \in 1..Len(mp.items) : cres.v.items[i] = convert(mp.items[i]).v
            ELSE cres = convert(mp.items[CHOOSE i \in bad : \A h \in bad : i <= h])

\* C8 witness: both elements fail, the first with MapKeyNotString.
C8_Witness ==
    /\ cdone
    /\ mp = MpArray(<<MpMap(<<[k |-> MpPosInt(1), v |-> MpNil]>>), MpString(<<195, 40>>)>>)
    /\ cres = Err("MapKeyNotString")

\* C9: a Map whose keys are all UTF-8 strings and whose values all convert
\* gives an object holding each distinct key once, with convert of the value
\* of the last entry that carries the key.
C9_LastDuplicateKeyWins ==
    (cdone /\ mp.t = "Map"
           /\ \A i \in 1..Len(mp.entries) :
                  IsUtf8Key(mp.entries[i].k) /\ convert(mp.entries[i].v).ok) =>
        /\ cres.ok
        /\ cres.v.t = "Object"
        /\ LET out == cres.v.entries
               key(i) == into_str(mp.entries[i].k.s).v
           IN  /\ \A a, b \in 1..Len(out) : out[a].k = out[b].k => a = b
               /\ {out[a].k : a \in 1..Len(out)} = {key(i) : i \in 1..Len(mp.entries)}
               /\ \A i \in 1..Len(mp.entries) :
                      (\A h \in (i + 1)..Len(mp.entries) : key(h) # key(i))
                      => ObjectGet(out, key(i)) = Some(convert(mp.entries[i].v).v)

\* C9 witness: "a" twice, the second value survives.
C9_Witness ==
    /\ cdone
    /\ mp = MpMap(<<[k |-> MpString(<<97>>), v |-> MpNil],
                    [k |-> MpString(<<97>>), v |-> MpPosInt(1)]>>)
    /\ cres = Ok(JsonObject(<<[k |-> <<97>>, v |-> JsonNumber(FALSE, 1, 0)]>>))

----------------------------------------------------------------------------
(* The source: MessagePack bytes, and rmpv::decode::read_value on them.    *)
(* The markers modelled: positive and negative fixint, nil, false, true,   *)
(* fixstr, bin 8, fixarray, fixmap, fixext 1.                              *)

\* The encoding of a value (what a producer wrote; the tests' byte literals).
RECURSIVE Encode(_)
Encode(v) ==
    CASE v.t = "Nil" -> <<192>>
      [] v.t = "Boolean" -> IF v.bool THEN <<195>> ELSE <<194>>
      [] v.t = "Integer" -> IF v.n >= 0 THEN <<v.n>> ELSE <<256 + v.n>>
      [] v.t = "String" -> <<160 + Len(v.s)>> \o v.s
      [] v.t = "Binary" -> <<196, Len(v.b)>> \o v.b
      [] v.t = "Array" ->
            <<144 + Len(v.items)>>
            \o Flatten([i \in 1..Len(v.items) |-> Encode(v.items[i])])
      [] v.t = "Map" ->
            <<128 + Len(v.entries)>>
            \o Flatten([i \in 1..Len(v.entries) |->
                           Encode(v.entries[i].k) \o Encode(v.entries[i].v)])
      [] v.t = "Ext" -> <<212, (v.code + 256) % 256>> \o v.b

EncodeAll(vs) == Flatten([i \in 1..Len(vs) |-> Encode(vs[i])])

\* A successful read: the value and the cursor after it.
Read(v, p) == [ok |-> TRUE, v |-> v, pos |-> p]
\* read_exact of n data bytes at cursor p: the bytes, or InvalidDataRead
\* (UnexpectedEof) when fewer are left.
ReadData(b, p, n) ==
    IF p + n <= Len(b) THEN Read(SubSeq(b, p + 1, p + n), p + n)
    ELSE Err("InvalidDataRead")

RECURSIVE ReadValue(_, _)
RECURSIVE ReadArrayData(_, _, _, _)
RECURSIVE ReadMapData(_, _, _, _)

\* read_array_data: n values, one after the other.
ReadArrayData(b, p, n, acc) ==
    IF n = 0 THEN Read(MpArray(acc), p)
    ELSE LET r == ReadValue(b, p)
         IN  IF r.ok THEN ReadArrayData(b, r.pos, n - 1, Append(acc, r.v)) ELSE r

\* read_map_data: n keys, each followed by its value.
ReadMapData(b, p, n, acc) ==
    IF n = 0 THEN Read(MpMap(acc), p)
    ELSE LET k == ReadValue(b, p)
         IN  IF ~k.ok THEN k
             ELSE LET v == ReadValue(b, k.pos)
                  IN  IF ~v.ok THEN v
                      ELSE ReadMapData(b, v.pos, n - 1, Append(acc, [k |-> k.v, v |-> v.v]))

\* rmpv::decode::read_value at cursor p (bytes consumed so far): read_marker
\* fails with InvalidMarkerRead (UnexpectedEof) when no byte is left, at the
\* top level and for every nested element alike.
ReadValue(b, p) ==
    IF p >= Len(b) THEN Err("InvalidMarkerRead")
    ELSE LET m == b[p + 1]
         IN  CASE m <= 127 -> Read(MpPosInt(m), p + 1)
               [] m >= 128 /\ m <= 143 -> ReadMapData(b, p + 1, m - 128, <<>>)
               [] m >= 144 /\ m <= 159 -> ReadArrayData(b, p + 1, m - 144, <<>>)
               [] m >= 160 /\ m <= 191 ->
                     LET d == ReadData(b, p + 1, m - 160)
                     IN  IF d.ok THEN Read(MpString(d.v), d.pos) ELSE d
               [] m = 192 -> Read(MpNil, p + 1)
               [] m = 194 -> Read(MpBoolean(FALSE), p + 1)
               [] m = 195 -> Read(MpBoolean(TRUE), p + 1)
               [] m = 196 ->
                     LET n == ReadData(b, p + 1, 1)
                     IN  IF ~n.ok THEN n
                         ELSE LET d == ReadData(b, n.pos, n.v[1])
                              IN  IF d.ok THEN Read(MpBinary(d.v), d.pos) ELSE d
               [] m = 212 ->
                     LET d == ReadData(b, p + 1, 2)
                     IN  IF d.ok
                         THEN Read(MpExt(IF d.v[1] >= 128 THEN d.v[1] - 256 ELSE d.v[1],
                                         <<d.v[2]>>), d.pos)
                         ELSE d
               [] m >= 224 -> Read(MpNegInt(m - 256), p + 1)
               [] OTHER -> Err("MarkerNotModelled")

\* read_and_convert_one (main.rs 84-87): the JSON value and the new cursor, or
\* the error: a decode error (RmpDecode, with rmpv's variant in kind) or
\* convert's.
read_and_convert_one(b, p) ==
    LET d == ReadValue(b, p)
    IN  IF ~d.ok THEN [ok |-> FALSE, err |-> "RmpDecode", kind |-> d.err]
        ELSE LET c == convert(d.v)
             IN  IF c.ok THEN [ok |-> TRUE, v |-> c.v, pos |-> d.pos]
                 ELSE [ok |-> FALSE, err |-> c.err, kind |-> c.err]

----------------------------------------------------------------------------
(* The JSON text: JsonValue::write and JsonValue::write_pretty(_, 2).      *)

RECURSIVE Digits(_)
Digits(n) == IF n < 10 THEN <<48 + n>> ELSE Append(Digits(n \div 10), 48 + (n % 10))

\* A character inside a JSON string: the quote, the backslash and the control
\* characters are escaped, everything else is written as UTF-8.
EscapeChar(c) ==
    CASE c = 34 -> <<92, 34>>
      [] c = 92 -> <<92, 92>>
      [] c = 10 -> <<92, 110>>
      [] c = 13 -> <<92, 114>>
      [] c = 9 -> <<92, 116>>
      [] OTHER -> Utf8EncodeCp(c)

WriteString(text) == <<34>> \o Flatten([i \in 1..Len(text) |-> EscapeChar(text[i])]) \o <<34>>

\* new_line of the pretty generator: a line feed and the indentation; nothing
\* in the compact one.
NewLine(pty, dent) == IF pty THEN <<10>> \o [i \in 1..(2 * dent) |-> 32] ELSE <<>>

RECURSIVE WriteJson(_, _, _)
WriteJson(j, pty, dent) ==
    CASE j.t = "Null" -> <<110, 117, 108, 108>>
      [] j.t = "Boolean" ->
            IF j.bool THEN <<116, 114, 117, 101>> ELSE <<102, 97, 108, 115, 101>>
      [] j.t = "Number" -> (IF j.neg THEN <<45>> ELSE <<>>) \o Digits(j.mantissa)
      [] j.t = "String" -> WriteString(j.s)
      [] j.t = "Array" ->
            IF Len(j.items) = 0 THEN <<91, 93>>
            ELSE <<91>>
                 \o Flatten([i \in 1..Len(j.items) |->
                        (IF i > 1 THEN <<44>> ELSE <<>>)
                        \o NewLine(pty, dent + 1)
                        \o WriteJson(j.items[i], pty, dent + 1)])
                 \o NewLine(pty, dent) \o <<93>>
      [] j.t = "Object" ->
            IF Len(j.entries) = 0 THEN <<123, 125>>
            ELSE <<123>>
                 \o Flatten([i \in 1..Len(j.entries) |->
                        (IF i > 1 THEN <<44>> ELSE <<>>)
                        \o NewLine(pty, dent + 1)
                        \o WriteString(j.entries[i].k)
                        \o (IF pty THEN <<58, 32>> ELSE <<58>>)
                        \o WriteJson(j.entries[i].v, pty, dent + 1)])
                 \o NewLine(pty, dent) \o <<125>>

\* The bytes v.write(&mut output) or v.write_pretty(&mut output, 2) sends.
Serialize(j, pty) == WriteJson(j, pty, 0)

----------------------------------------------------------------------------
(* The output: the sink W and, when buffered, the BufWriter around it.     *)
(* An output state is [sink, buf, err]: the bytes the sink holds, the      *)
(* bytes in the BufWriter, and the error of the latest call ("none", or    *)
(* the io::ErrorKind).  The sink accepts sinkCap bytes (any number when    *)
(* Unbounded) and from then on answers every write the same way: a closed  *)
(* pipe with BrokenPipe, a failing device with Other, a full fixed-size    *)
(* buffer (such as &mut [u8]) with Ok(0).                                  *)

Out(sk, bf, e) == [sink |-> sk, buf |-> bf, err |-> e]

\* How many of n offered bytes the sink takes.
Accepted(sk, n) == IF sinkKind = "Unbounded" THEN n ELSE Min(n, sinkCap - Len(sk))

\* The answer of a sink that takes no more bytes; Ok(0) is no error.
Refusal == CASE sinkKind = "BrokenPipe" -> "BrokenPipe"
             [] sinkKind = "OtherErr" -> "Other"
             [] OTHER -> "none"

\* W::write(data): some bytes taken (Ok(n), n possibly 0), or the error.
SinkWrite(o, data) ==
    LET n == Accepted(o.sink, Len(data))
    IN  IF n > 0 \/ Len(data) = 0
        THEN Out(o.sink \o SubSeq(data, 1, n), o.buf, "none")
        ELSE Out(o.sink, o.buf, Refusal)

\* W::write_all(data): write until all is taken; Ok(0) is the error WriteZero.
SinkWriteAll(o, data) ==
    LET n == Accepted(o.sink, Len(data))
    IN  Out(o.sink \o SubSeq(data, 1, n), o.buf,
            IF n = Len(data) THEN "none"
            ELSE IF Refusal = "none" THEN "WriteZero" ELSE Refusal)

\* BufWriter::flush_buf: write the buffer to the sink; what was written
\* leaves the buffer, the rest stays; Ok(0) is the error WriteZero.
FlushBuf(o) ==
    LET n == Accepted(o.sink, Len(o.buf))
    IN  Out(o.sink \o SubSeq(o.buf, 1, n), SubSeq(o.buf, n + 1, Len(o.buf)),
            IF n = Len(o.buf) THEN "none"
            ELSE IF Refusal = "none" THEN "WriteZero" ELSE Refusal)

\* BufWriter::write_all(data).
BufWriteAll(o, data) ==
    IF Len(data) < BufCap - Len(o.buf) THEN Out(o.sink, o.buf \o data, "none")
    ELSE LET f == IF Len(data) > BufCap - Len(o.buf) THEN FlushBuf(o) ELSE o
         IN  IF f.err # "none" THEN f
             ELSE IF Len(data) >= BufCap THEN SinkWriteAll(f, data)
             ELSE Out(f.sink, f.buf \o data, "none")

\* BufWriter::write(data).
BufWrite(o, data) ==
    IF Len(data) < BufCap - Len(o.buf) THEN Out(o.sink, o.buf \o data, "none")
    ELSE LET f == IF Len(data) > BufCap - Len(o.buf) THEN FlushBuf(o) ELSE o
         IN  IF f.err # "none" THEN f
             ELSE IF Len(data) >= BufCap THEN SinkWrite(f, data)
             ELSE Out(f.sink, f.buf \o data, "none")

\* BufWriter::flush: flush_buf, then the sink's own flush (which holds nothing
\* back and succeeds).
BufFlush(o) == FlushBuf(o)

\* Drop of the BufWriter: flush_buf, its error ignored.
DropOutput(o) == IF buffered THEN Out(FlushBuf(o).sink, FlushBuf(o).buf, o.err) ELSE o

\* output.write_all(data) on whichever output run_inner was given.
OutputWriteAll(o, data) == IF buffered THEN BufWriteAll(o, data) ELSE SinkWriteAll(o, data)

\* output.write(data): the number of bytes taken is not looked at by the caller.
OutputWrite(o, data) == IF buffered THEN BufWrite(o, data) ELSE SinkWrite(o, data)

\* The JSON generator sends the text in pieces, each with write_all, and stops
\* at the first error (a piece is modelled as one byte).
RECURSIVE WriteText(_, _)
WriteText(o, text) ==
    IF text = <<>> THEN o
    ELSE LET w == OutputWriteAll(o, <<Head(text)>>)
         IN  IF w.err # "none" THEN w ELSE WriteText(w, Tail(text))

\* main.rs 99-104: write.and_then(|_| output.write(&[0x0a])).
WriteLine(o, j) ==
    LET w == WriteText(o, Serialize(j, pretty))
    IN  IF w.err # "none" THEN w ELSE OutputWrite(w, <<10>>)

----------------------------------------------------------------------------
(* Spec: Converter::run.                                                   *)

\* The values a stream is made of: scalars, a String that is not UTF-8,
\* containers whose truncation ends at a nested marker or inside data, a map
\* with a key that is no String.
RunValues ==
    {MpNil, MpPosInt(1), MpString(<<97>>), MpString(<<195, 40>>),
     MpArray(<<MpPosInt(1), MpNil>>),
     MpArray(<<MpArray(<<MpNil>>)>>),
     MpMap(<<[k |-> MpString(<<97>>), v |-> MpBinary(<<98>>)]>>),
     MpMap(<<[k |-> MpPosInt(1), v |-> MpPosInt(2)]>>)}

SinkKinds == {"BrokenPipe", "OtherErr", "Full"}

Init ==
    /\ mp = MpNil /\ cdone = FALSE /\ cres = Err("NotRun")
    /\ vals \in SeqsUpTo(RunValues, MaxVals)
    /\ \E n \in 0..Len(EncodeAll(vals)) : input = SubSeq(EncodeAll(vals), 1, n)
    /\ pos = 0
    /\ buffered \in BOOLEAN
    /\ pretty \in BOOLEAN
    /\ \/ sinkKind = "Unbounded" /\ sinkCap = 0
       \/ sinkKind \in SinkKinds /\ sinkCap \in 0..MaxSinkCap
    /\ sink = <<>> /\ buf = <<>>
    /\ pc = "loop" /\ result = "none"
    /\ nread = 0 /\ lastStart = 0 /\ lastRead = "none" /\ sinkErrs = {}

\* run returns r; the BufWriter, if any, is dropped with output state o.
Return(r, o) ==
    /\ pc' = "done"
    /\ result' = r
    /\ sink' = DropOutput(o).sink
    /\ buf' = DropOutput(o).buf

\* The loop is left with break: run_inner returns Ok(()), which run returns
\* as it is when unbuffered and follows with the flush when buffered.
Break(o) ==
    IF buffered
    THEN pc' = "after" /\ result' = result /\ sink' = o.sink /\ buf' = o.buf
    ELSE Return("Ok", o)

\* main.rs 98-109: a value was read and converted; it is written with its
\* line feed.  BrokenPipe breaks the loop, any other error is returned as
\* Output, success goes round the loop.
WriteValue ==
    /\ pc = "loop"
    /\ LET r == read_and_convert_one(input, pos)
       IN  /\ r.ok
           /\ LET w == WriteLine(Out(sink, buf, "none"), r.v)
              IN  /\ sinkErrs' = sinkErrs \cup ({w.err} \ {"none"})
                  /\ CASE w.err = "none" ->
                            /\ pc' = pc /\ result' = result
                            /\ sink' = w.sink /\ buf' = w.buf
                       [] w.err = "BrokenPipe" -> Break(w)
                       [] OTHER -> Return("Output", w)
           /\ pos' = r.pos
           /\ lastStart' = pos
           /\ lastRead' = "Ok"
           /\ nread' = nread + 1
    /\ UNCHANGED <<convVars, vals, input, buffered, pretty, sinkKind, sinkCap>>

\* main.rs 110-114: the read failed with InvalidMarkerRead carrying
\* UnexpectedEof; the loop is left with break.
ReadEof ==
    /\ pc = "loop"
    /\ LET r == read_and_convert_one(input, pos)
       IN  /\ ~r.ok
           /\ r.kind = "InvalidMarkerRead"
           /\ lastRead' = r.kind
    /\ Break(Out(sink, buf, "none"))
    /\ lastStart' = pos
    /\ UNCHANGED <<convVars, vals, input, pos, buffered, pretty, sinkKind, sinkCap,
                   nread, sinkErrs>>

\* main.rs 115: any other error of the read or of convert is returned.
ReadFail ==
    /\ pc = "loop"
    /\ LET r == read_and_convert_one(input, pos)
       IN  /\ ~r.ok
           /\ r.kind # "InvalidMarkerRead"
           /\ lastRead' = r.kind
           /\ Return(r.err, Out(sink, buf, "none"))
    /\ lastStart' = pos
    /\ UNCHANGED <<convVars, vals, input, pos, buffered, pretty, sinkKind, sinkCap,
                   nread, sinkErrs>>

\* main.rs 125-126: buffered, after run_inner returned Ok(()): flush; its
\* error is returned as Output, whatever its kind.
Flush ==
    /\ pc = "after"
    /\ LET f == BufFlush(Out(sink, buf, "none"))
       IN  /\ sinkErrs' = sinkErrs \cup ({f.err} \ {"none"})
           /\ Return(IF f.err = "none" THEN "Ok" ELSE "Output", f)
    /\ UNCHANGED <<convVars, vals, input, pos, buffered, pretty, sinkKind, sinkCap,
                   nread, lastStart, lastRead>>

Next == WriteValue \/ ReadEof \/ ReadFail \/ Flush

Spec == Init /\ [][Next]_vars

----------------------------------------------------------------------------
(* Claims about Converter::run, checked under Spec.                        *)

\* The lines of the values vs: each value's text and one line feed.
ExpectedLines(vs) ==
    Flatten([i \in 1..Len(vs) |-> Serialize(convert(vs[i]).v, pretty) \o <<10>>])

\* The source is the whole encoding of vals and every value converts.
CompleteStream ==
    /\ input = EncodeAll(vals)
    /\ \A i \in 1..Len(vals) : convert(vals[i]).ok

\* The latest read ran out of input after consuming part of a value.
EndedInsideValue ==
    /\ lastRead \in {"InvalidMarkerRead", "InvalidDataRead"}
    /\ lastStart < Len(input)

\* C1: on a stream of complete values that all convert, with no write, write_all
\* or flush call on the output returning an error, run returns success and the
\* sink holds exactly the values' lines, each ended by one line feed.
C1_CompleteStreamDelivered ==
    (pc = "done" /\ CompleteStream /\ sinkErrs = {}) =>
        /\ result = "Ok"
        /\ sink = ExpectedLines(vals)

\* C2: run returns success on end of input only when no byte of a new
\* top-level value was consumed; when the input ends inside a value, run
\* returns a decode error.
C2_SuccessOnlyAtValueBoundary ==
    pc = "done" =>
        /\ (result = "Ok" /\ lastRead = "InvalidMarkerRead") => lastStart = Len(input)
        /\ EndedInsideValue => result = "RmpDecode"

\* C3: when a write or the flush fails with BrokenPipe, run returns success;
\* when one fails with any other error, run returns an Output error.
C3_BrokenPipeIsSuccess ==
    pc = "done" =>
        /\ "BrokenPipe" \in sinkErrs => result = "Ok"
        /\ (sinkErrs # {} /\ "BrokenPipe" \notin sinkErrs) => result = "Output"

\* C4: when reading or converting the k-th value fails and the sink accepts
\* every write, run returns that error and the sink holds exactly the lines
\* of the k-1 values before it.
C4_FailureKeepsEarlierLines ==
    (/\ pc = "done"
     /\ sinkKind = "Unbounded"
     /\ \/ EndedInsideValue
        \/ lastRead \in {"InvalidString", "MapKeyNotString", "InvalidInteger"}) =>
        /\ result = (IF EndedInsideValue THEN "RmpDecode" ELSE lastRead)
        /\ sink = ExpectedLines(SubSeq(vals, 1, nread))

----------------------------------------------------------------------------
(* What does hold of run (no claim's formula; the parts of C1, C3 and C4   *)
(* the code keeps).                                                        *)

\* A sink that accepts every byte holds, once run has returned, exactly the
\* lines of the values read and converted, also after an error and also
\* when buffered (the BufWriter is flushed when it is dropped).
AcceptingSinkHoldsWholeLines ==
    (pc = "done" /\ sinkKind = "Unbounded") =>
        /\ sink = ExpectedLines(SubSeq(vals, 1, nread))
        /\ (CompleteStream => result = "Ok" /\ nread = Len(vals))

\* Unbuffered, a BrokenPipe ends run with success.
UnbufferedBrokenPipeIsSuccess ==
    (pc = "done" /\ ~buffered /\ "BrokenPipe" \in sinkErrs) => result = "Ok"

=============================================================================
